---- MODULE Spec2Model ----
(***************************************************************************)
(* A model of the transaction record of the agent (type txn and its        *)
(* public methods) and of the log decoration routine EnrichLog.            *)
(*                                                                         *)
(* Several goroutines call the public methods of one transaction.  Every   *)
(* method takes the transaction's mutex, runs its body, and releases the   *)
(* mutex through a deferred Unlock.  Write and WriteHeader first delegate  *)
(* to the wrapped http.ResponseWriter, outside the mutex.                  *)
(***************************************************************************)
EXTENDS Integers, Sequences, FiniteSets, TLC

(***************************************************************************)
(* Bounds of the model.                                                    *)
(***************************************************************************)
MaxCalls == 3
MaxTime == 1
MaxEnrich == 1
MaxBuilds == 2

Threads == {1, 2}
Times == 0..MaxTime

(***************************************************************************)
(* Values.  The Go nil (a nil error, a nil interface value) is "nil".      *)
(***************************************************************************)
Nil == "nil"
NoPanic == "none"
Names == {"a", "ign"}
ErrValues == {Nil, "e1"}
PanicValues == {Nil, "boom"}
Codes == {404, 599}
AttrValues == {"v1"}

StatusOK == 200
StatusBadRequest == 400
MaxLogLength == 32768

ErrAlreadyEnded == "transaction has already ended"
ErrorsLocallyDisabled == "errors locally disabled"
ErrorsRemotelyDisabled == "errors remotely disabled"
ErrNilError == "nil error"
HighSecurityErrorMsg == "message removed by high security setting"

apdexNone == "none"
apdexSatisfying == "satisfying"
apdexTolerating == "tolerating"
apdexFailing == "failing"

VARIABLES
    cfg,      \* txnInput: Config and Reply settings, fixed at construction
    txn,      \* the fields of the txn struct
    mu,       \* the embedded sync.Mutex: 0 when free, else the holder
    pc,       \* per goroutine: where it is in its current call
    op,       \* per goroutine: the call in progress and its arguments
    ret,      \* per goroutine: what the call in progress hands its caller
    sink,     \* the wrapped http.ResponseWriter (txn.Writer)
    harvest,  \* the records the consumer received through consume()
    clock,    \* the last value time.Now() returned
    calls,    \* number of calls started so far
    logbuf,   \* the caller's *bytes.Buffer handed to EnrichLog
    logcall,  \* the arguments and surroundings of the last EnrichLog call
    logret,   \* the error the last EnrichLog call returned
    logcalls, \* number of EnrichLog calls so far
    evin,     \* the LogData last handed to toLogEvent, as the caller gave it
    evdata,   \* the same LogData after the call, which writes to it
    event,    \* the logEvent the last toLogEvent call returned
    everr,    \* the error the last toLogEvent call returned
    wire,     \* the buffer WriteJSON last wrote the event to
    evcalls,  \* number of toLogEvent calls so far
    emitted   \* what mergeIntoHarvest added to the harvest, in order

txnVars == <<cfg, txn, mu, pc, op, ret, sink, harvest, clock, calls>>
logVars == <<logbuf, logcall, logret, logcalls>>
evVars == <<evin, evdata, event, everr, wire, evcalls>>
restVars == <<logVars, evVars, emitted>>
vars == <<txnVars, restVars>>

(***************************************************************************)
(* Decimal conversions (strconv.Itoa, strconv.Atoi on header values).      *)
(***************************************************************************)
DigitChars == <<"0", "1", "2", "3", "4", "5", "6", "7", "8", "9">>

RECURSIVE Itoa(_)
Itoa(n) ==
    IF n < 10 THEN DigitChars[n + 1]
    ELSE Itoa(n \div 10) \o DigitChars[(n % 10) + 1]

DigitOf(c) ==
    IF \E i \in 1..10 : DigitChars[i] = c
    THEN (CHOOSE i \in 1..10 : DigitChars[i] = c) - 1
    ELSE -1

RECURSIVE AtoiFrom(_, _, _)
AtoiFrom(s, i, acc) ==
    IF i > Len(s) THEN [ok |-> TRUE, val |-> acc]
    ELSE LET d == DigitOf(SubSeq(s, i, i))
         IN  IF d < 0 THEN [ok |-> FALSE, val |-> 0]
             ELSE AtoiFrom(s, i + 1, acc * 10 + d)

Atoi(s) ==
    IF s = "" THEN [ok |-> FALSE, val |-> 0] ELSE AtoiFrom(s, 1, 0)

statusCodeLookup ==
    [c \in {100, 101, 200, 201, 202, 203, 204, 205, 206,
            300, 301, 302, 303, 304, 305, 307,
            400, 401, 402, 403, 404, 405, 406, 407, 408, 409, 410, 411,
            412, 413, 414, 415, 416, 417, 418, 428, 429, 431, 451,
            500, 501, 502, 503, 504, 505, 511} |-> Itoa(c)]

ResponseCodeString(code) ==
    LET looked == IF code \in DOMAIN statusCodeLookup
                  THEN statusCodeLookup[code] ELSE ""
    IN  IF looked = "" THEN Itoa(code) ELSE looked

(***************************************************************************)
(* Collaborators of the transaction that live outside these files.         *)
(***************************************************************************)
\* http.StatusText: the message of a response-code error.
StatusText(code) ==
    IF code = 200 THEN "OK"
    ELSE IF code = 404 THEN "Not Found"
    ELSE ""

txnErrorFromError(err) ==
    [klass |-> "error", msg |-> err, when |-> 0, stack |-> ""]

txnErrorFromPanic(r) ==
    [klass |-> "panic", msg |-> r, when |-> 0, stack |-> ""]

txnErrorFromResponseCode(code) ==
    [klass |-> Itoa(code), msg |-> StatusText(code), when |-> 0, stack |-> ""]

\* getStackTrace: the text names the function that captured the stack.
getStackTrace(where) == where

\* The name rules of the connect reply: names an ignore rule matches resolve
\* to the empty name.
IgnoredNames == {"ign"}

CreateFullTxnName(name, isWeb) ==
    IF name \in IgnoredNames THEN ""
    ELSE (IF isWeb THEN "WebTransaction/Go/" ELSE "OtherTransaction/Go/") \o name

calculateApdexThreshold(finalName) == 1

calculateApdexZone(threshold, duration) ==
    IF duration <= threshold THEN apdexSatisfying
    ELSE IF duration <= 4 * threshold THEN apdexTolerating
    ELSE apdexFailing

\* txnErrors.Add on the bounded store; the store is never full within the
\* bounds of this model.
TxnErrorsAdd(errors, e) == Append(errors, e)

\* addUserAttribute: the value replaces an earlier value of the same key.
addUserAttribute(attrs, key, value) ==
    [attrs EXCEPT !.user = {p \in @ : p[1] # key} \cup {<<key, value>>}]

\* The headers of the wrapped writer, as txn.Writer.Header() returns them.
WriterHeader == [ContentType |-> "text/html", ContentLength |-> "12"]

\* net/http: the first header write fixes the status the sink sends.
SinkWriteHeader(s, code) ==
    IF s.status = 0 THEN [s EXCEPT !.status = code] ELSE s

(***************************************************************************)
(* The transaction: construction and the helpers of its methods.           *)
(***************************************************************************)
\* newTxn: the record right after construction (start = time.Now() = 0).
newTxn(input, name) ==
    [ finished       |-> FALSE,
      queuing        |-> IF input.hasRequest THEN input.queuing ELSE 0,
      start          |-> 0,
      name           |-> name,
      isWeb          |-> input.hasRequest,
      ignore         |-> FALSE,
      errors         |-> << >>,
      errorsSeen     |-> 0,
      attrs          |-> [ ResponseCode                 |-> "",
                           ResponseHeadersContentType   |-> "",
                           ResponseHeadersContentLength |-> 0,
                           user                         |-> {} ],
      wroteHeader    |-> FALSE,
      stop           |-> 0,
      duration       |-> 0,
      finalName      |-> "",
      zone           |-> "",
      apdexThreshold |-> 0 ]

\* txn.txnEventsEnabled: the local and the remote switch of transaction events.
txnEventsEnabled(c) == c.TransactionEventsEnabled /\ c.CollectAnalyticsEvents

\* Mutant of errorEventsEnabled: one switch is enough.
errorEventsEnabled_either(c) == c.CaptureEvents \/ c.CollectErrorEvents

\* txn.errorEventsEnabled: the local and the remote switch of error events.
errorEventsEnabled(c) == c.CaptureEvents /\ c.CollectErrorEvents

freezeName(x) ==
    IF x.ignore \/ ("" # x.finalName) THEN x
    ELSE LET fn == CreateFullTxnName(x.name, x.isWeb)
         IN  [x EXCEPT !.finalName = fn,
                       !.ignore = IF "" = fn THEN TRUE ELSE @]

getsApdex(x) == x.isWeb

responseCodeIsError(c, code) ==
    IF code < StatusBadRequest THEN FALSE
    ELSE IF code \in c.IgnoreStatusCodes THEN FALSE
    ELSE TRUE

\* Mutant of storedMsg: high security does not redact.
storedMsg_keeps(c, msg) == msg

\* The message stored for an error: replaced under high security.
storedMsg(c, msg) ==
    IF c.HighSecurity THEN HighSecurityErrorMsg ELSE msg

\* Mutant of noticeErrorInternal: the counter grows only for stored errors.
noticeErrorInternal_countsStored(c, x, err, now) ==
    IF ~c.ErrorCollectorEnabled
    THEN [txn |-> x, ret |-> ErrorsLocallyDisabled, read |-> FALSE]
    ELSE IF ~c.CollectErrors
    THEN [txn |-> x, ret |-> ErrorsRemotelyDisabled, read |-> FALSE]
    ELSE [txn |-> [x EXCEPT !.errorsSeen = @ + 1,
                            !.errors = TxnErrorsAdd(@,
                                [err EXCEPT !.msg = storedMsg(c, err.msg),
                                            !.when = now])],
          ret |-> Nil, read |-> TRUE]

\* Mutant of noticeErrorInternal: the remote gate is tested before the local
\* one.
noticeErrorInternal_remoteFirst(c, x, err, now) ==
    LET x1 == [x EXCEPT !.errorsSeen = @ + 1]
    IN  IF ~c.CollectErrors
        THEN [txn |-> x1, ret |-> ErrorsRemotelyDisabled, read |-> FALSE]
        ELSE IF ~c.ErrorCollectorEnabled
        THEN [txn |-> x1, ret |-> ErrorsLocallyDisabled, read |-> FALSE]
        ELSE [txn |-> [x1 EXCEPT !.errors = TxnErrorsAdd(@,
                          [err EXCEPT !.msg = storedMsg(c, err.msg),
                                      !.when = now])],
              ret |-> Nil, read |-> TRUE]

\* noticeErrorInternal: the transaction after the call and the value returned.
\* now is the value of time.Now() if the call gets to read the clock.
noticeErrorInternal(c, x, err, now) ==
    LET x1 == [x EXCEPT !.errorsSeen = @ + 1]
    IN  IF ~c.ErrorCollectorEnabled
        THEN [txn |-> x1, ret |-> ErrorsLocallyDisabled, read |-> FALSE]
        ELSE IF ~c.CollectErrors
        THEN [txn |-> x1, ret |-> ErrorsRemotelyDisabled, read |-> FALSE]
        ELSE [txn |-> [x1 EXCEPT !.errors = TxnErrorsAdd(@,
                          [err EXCEPT !.msg = storedMsg(c, err.msg),
                                      !.when = now])],
              ret |-> Nil, read |-> TRUE]

\* Mutant of headersAlreadyHandled: the finished check is missing.
headersAlreadyHandled_noFinished(x) == x.wroteHeader

\* Mutant of headersAlreadyHandled: the wroteHeader check is missing.
headersAlreadyHandled_noWrote(x) == x.finished

\* Whether headersJustWritten returns before capturing anything.
headersAlreadyHandled(x) == x.finished \/ x.wroteHeader

\* Mutant of markWroteHeader: the flag is never set.
markWroteHeader_skip(x) == x

\* txn.wroteHeader = true
markWroteHeader(x) == [x EXCEPT !.wroteHeader = TRUE]

headersJustWritten(c, x, code, now) ==
    IF headersAlreadyHandled(x)
    THEN [txn |-> x, read |-> FALSE]
    ELSE LET h  == WriterHeader
             cl == Atoi(h.ContentLength)
             x1 == [markWroteHeader(x) EXCEPT
                      !.attrs.ResponseHeadersContentType = h.ContentType,
                      !.attrs.ResponseHeadersContentLength =
                          IF "" # h.ContentLength /\ cl.ok THEN cl.val ELSE @,
                      !.attrs.ResponseCode = ResponseCodeString(code)]
         IN  IF responseCodeIsError(c, code)
             THEN LET e == [txnErrorFromResponseCode(code) EXCEPT
                              !.stack = getStackTrace("headersJustWritten")]
                      n == noticeErrorInternal(c, x1, e, now)
                  IN  [txn |-> n.txn, read |-> n.read]
             ELSE [txn |-> x1, read |-> FALSE]

\* Mutant of alreadyEnded: the finished check is missing.
alreadyEnded_never(x) == FALSE

\* if txn.finished { return ErrAlreadyEnded }: the check that opens End,
\* AddAttribute, NoticeError and SetName.
alreadyEnded(x) == x.finished

\* Mutant of endMarkFinished: End forgets to set finished.
endMarkFinished_skip(x) == x

\* txn.finished = true
endMarkFinished(x) == [x EXCEPT !.finished = TRUE]

\* recover(): the value of the panic in flight; nil when there is none, and
\* nil as well for panic(nil), which recover() cannot tell from no panic.
recover(p) == IF p = NoPanic THEN Nil ELSE p

\* Mutant of endApdex: the zone comes from the timing alone.
endApdex_timingOnly(x) ==
    IF getsApdex(x)
    THEN LET th == calculateApdexThreshold(x.finalName)
         IN  [x EXCEPT !.apdexThreshold = th,
                       !.zone = calculateApdexZone(th, x.duration)]
    ELSE [x EXCEPT !.zone = apdexNone]

\* The apdex part of End: threshold and zone.
endApdex(x) ==
    IF getsApdex(x)
    THEN LET th == calculateApdexThreshold(x.finalName)
         IN  [x EXCEPT !.apdexThreshold = th,
                       !.zone = IF x.errorsSeen > 0 THEN apdexFailing
                                ELSE calculateApdexZone(th, x.duration)]
    ELSE [x EXCEPT !.zone = apdexNone]

\* Mutant of endConsume: consume() is called for ignored transactions too.
endConsume_always(h, x) == Append(h, x)

\* The record the consumer receives: consume() is skipped when ignored.
endConsume(h, x) == IF ~x.ignore THEN Append(h, x) ELSE h

\* What End hands its caller after finalizing: the panic again, or nil.
\* Mutant of endResult: End returns nil and the panic is lost.
endResult_swallow(r) == [kind |-> "return", val |-> Nil, unwinding |-> NoPanic]

\* unwinding is the panic in flight when the call is left: r after panic(r),
\* none after recover() stopped a panic(nil) and End returns nil.
endResult(r) ==
    IF Nil # r THEN [kind |-> "panic", val |-> r, unwinding |-> r]
    ELSE [kind |-> "return", val |-> Nil, unwinding |-> NoPanic]

\* The finalizing part of End, from txn.finished = true to the apdex zone.
\* w and s are the values of time.Now() for the error and for txn.stop.
endFinalize(c, x, p, w, s) ==
    LET x1 == endMarkFinished(x)
        r  == recover(p)
        x2 == IF Nil # r
              THEN noticeErrorInternal(c, x1,
                       [txnErrorFromPanic(r) EXCEPT
                           !.stack = getStackTrace("End")], w).txn
              ELSE x1
        x3 == [x2 EXCEPT !.stop = s, !.duration = s - x2.start]
    IN  endApdex(freezeName(x3))

(***************************************************************************)
(* The state machine.                                                      *)
(***************************************************************************)
\* The txnInput values the transaction is constructed with.
Configs ==
    [ hasRequest            : BOOLEAN,
      queuing               : {0},
      ErrorCollectorEnabled : BOOLEAN,
      CollectErrors         : BOOLEAN,
      HighSecurity          : BOOLEAN,
      IgnoreStatusCodes     : {{}, {404}},
      TransactionEventsEnabled : {TRUE},
      CollectAnalyticsEvents   : {TRUE},
      CaptureEvents            : {TRUE},
      CollectErrorEvents       : {TRUE} ]

\* One configuration: no request, errors collected, nothing ignored.
StandbyConfigs ==
    {c \in Configs : /\ ~c.hasRequest /\ ~c.HighSecurity
                     /\ c.ErrorCollectorEnabled /\ c.CollectErrors
                     /\ c.IgnoreStatusCodes = {}}

InitialNames == {"a"}

NoOp == [name |-> "none", str |-> "", code |-> 0, late |-> FALSE]
NoRet == [kind |-> "none", val |-> "", unwinding |-> NoPanic]

\* The calls a goroutine can make, with their arguments.
Ops ==
    {[NoOp EXCEPT !.name = "SetName", !.str = n] : n \in Names}
    \cup {[NoOp EXCEPT !.name = "AddAttribute", !.str = v] : v \in AttrValues}
    \cup {[NoOp EXCEPT !.name = "NoticeError", !.str = e] : e \in ErrValues}
    \cup {[NoOp EXCEPT !.name = "Write"]}
    \cup {[NoOp EXCEPT !.name = "WriteHeader", !.code = c] : c \in Codes}
    \cup {[NoOp EXCEPT !.name = "End", !.str = p] : p \in PanicValues \cup {NoPanic}}

\* The values time.Now() can return next.
Later == {t \in Times : t >= clock}

\* The first End has run to its end: the transaction is finished and the
\* goroutine that finalized it has left its critical section.
EndCompleted ==
    /\ txn.finished
    /\ \A t \in Threads :
          ~(pc[t] = "unlock" /\ op[t].name = "End" /\ ret[t].val # ErrAlreadyEnded)

\* No EnrichLog call has been made.
NoLogCall ==
    [ source |-> "none", appSet |-> FALSE, stateErr |-> Nil,
      logging |-> FALSE, decorating |-> FALSE,
      entityGUID |-> "", hostname |-> "", entityName |-> "",
      traceID |-> "", spanID |-> "" ]

LogIdle ==
    /\ logbuf = [isNil |-> TRUE, data |-> ""]
    /\ logcall = NoLogCall
    /\ logret = Nil
    /\ logcalls = 0

\* The zero value logEvent{}.
NoEvent ==
    [ priority |-> 0, timestamp |-> 0, severity |-> "", message |-> "",
      spanID |-> "", traceID |-> "" ]

\* A nil *LogData.
NilLogData == [isNil |-> TRUE, Timestamp |-> 0, Severity |-> "", Message |-> ""]

\* No toLogEvent call has been made.
EvIdle ==
    /\ evin = NilLogData
    /\ evdata = NilLogData
    /\ event = NoEvent
    /\ everr = Nil
    /\ wire = ""
    /\ evcalls = 0

\* The transaction right after newTxn, for the configurations cs.
TxnInit(cs) ==
    /\ cfg \in cs
    /\ txn \in {newTxn(cfg, n) : n \in InitialNames}
    /\ mu = 0
    /\ pc = [t \in Threads |-> "idle"]
    /\ op = [t \in Threads |-> NoOp]
    /\ ret = [t \in Threads |-> NoRet]
    /\ sink = [status |-> 0]
    /\ harvest = << >>
    /\ clock = 0
    /\ calls = 0

Init == LogIdle /\ EvIdle /\ emitted = << >> /\ TxnInit(Configs)

\* A goroutine starts a call of a public method.
Call(t) ==
    /\ pc[t] = "idle"
    /\ calls < MaxCalls
    /\ \E o \in Ops :
          /\ op' = [op EXCEPT ![t] = [o EXCEPT !.late = EndCompleted]]
          /\ pc' = [pc EXCEPT ![t] =
                      IF o.name \in {"Write", "WriteHeader"} THEN "sink" ELSE "lock"]
    /\ calls' = calls + 1
    /\ UNCHANGED <<restVars, cfg, txn, mu, ret, sink, harvest, clock>>

\* Write, first statement: txn.Writer.Write(b), outside the mutex.
WriterWrite(t) ==
    /\ pc[t] = "sink" /\ op[t].name = "Write"
    /\ sink' = SinkWriteHeader(sink, StatusOK)
    /\ ret' = [ret EXCEPT ![t] = [NoRet EXCEPT !.kind = "sink", !.val = Nil]]
    /\ pc' = [pc EXCEPT ![t] = "lock"]
    /\ UNCHANGED <<restVars, cfg, txn, mu, op, harvest, clock, calls>>

\* WriteHeader, first statement: txn.Writer.WriteHeader(code).
WriterWriteHeader(t) ==
    /\ pc[t] = "sink" /\ op[t].name = "WriteHeader"
    /\ sink' = SinkWriteHeader(sink, op[t].code)
    /\ pc' = [pc EXCEPT ![t] = "lock"]
    /\ UNCHANGED <<restVars, cfg, txn, mu, op, ret, harvest, clock, calls>>

\* txn.Lock(): the goroutine gets the mutex when it is free; the body of the
\* method, which only the holder of the mutex runs, is taken in the same step.
Lock(t) ==
    /\ pc[t] = "lock"
    /\ mu = 0
    /\ mu' = t

\* Mutant of Unlock: the mutex stays locked when End leaves by a panic.
Unlock_leaksOnPanic(t) ==
    /\ pc[t] = "unlock"
    /\ mu' = IF ret[t].kind = "panic" THEN mu ELSE 0
    /\ pc' = [pc EXCEPT ![t] = "idle"]
    /\ op' = [op EXCEPT ![t] = NoOp]
    /\ ret' = [ret EXCEPT ![t] = NoRet]
    /\ UNCHANGED <<restVars, cfg, txn, sink, harvest, clock, calls>>

\* defer txn.Unlock(), which runs on every way out, and the return.
Unlock(t) ==
    /\ pc[t] = "unlock"
    /\ mu' = 0
    /\ pc' = [pc EXCEPT ![t] = "idle"]
    /\ op' = [op EXCEPT ![t] = NoOp]
    /\ ret' = [ret EXCEPT ![t] = NoRet]
    /\ UNCHANGED <<restVars, cfg, txn, sink, harvest, clock, calls>>

\* return v; a panic the method did not recover keeps unwinding.
Returns(t, v) ==
    /\ ret' = [ret EXCEPT ![t] = [kind |-> "return", val |-> v,
                                   unwinding |-> IF op[t].name = "End"
                                                 THEN op[t].str ELSE NoPanic]]
    /\ pc' = [pc EXCEPT ![t] = "unlock"]

Write(t) ==
    /\ Lock(t) /\ op[t].name = "Write"
    /\ \E now \in Later :
          LET h == headersJustWritten(cfg, txn, StatusOK, now)
          IN  /\ txn' = h.txn
              /\ clock' = IF h.read THEN now ELSE clock
    /\ Returns(t, ret[t].val)
    /\ UNCHANGED <<restVars, cfg, op, sink, harvest, calls>>

WriteHeader(t) ==
    /\ Lock(t) /\ op[t].name = "WriteHeader"
    /\ \E now \in Later :
          LET h == headersJustWritten(cfg, txn, op[t].code, now)
          IN  /\ txn' = h.txn
              /\ clock' = IF h.read THEN now ELSE clock
    /\ Returns(t, "void")
    /\ UNCHANGED <<restVars, cfg, op, sink, harvest, calls>>

End(t) ==
    /\ Lock(t) /\ op[t].name = "End"
    /\ IF alreadyEnded(txn)
       THEN /\ Returns(t, ErrAlreadyEnded)
            /\ UNCHANGED <<txn, harvest, clock>>
       ELSE \E w \in Later : \E s \in {u \in Times : u >= w} :
              LET x == endFinalize(cfg, txn, op[t].str, w, s)
              IN  /\ txn' = x
                  /\ harvest' = endConsume(harvest, x)
                  /\ clock' = s
                  /\ ret' = [ret EXCEPT ![t] = endResult(recover(op[t].str))]
                  /\ pc' = [pc EXCEPT ![t] = "unlock"]
    /\ UNCHANGED <<restVars, cfg, op, sink, calls>>

AddAttribute(t) ==
    /\ Lock(t) /\ op[t].name = "AddAttribute"
    /\ IF alreadyEnded(txn)
       THEN /\ Returns(t, ErrAlreadyEnded)
            /\ UNCHANGED txn
       ELSE /\ txn' = [txn EXCEPT !.attrs = addUserAttribute(@, "k", op[t].str)]
            /\ Returns(t, Nil)
    /\ UNCHANGED <<restVars, cfg, op, sink, harvest, clock, calls>>

NoticeError(t) ==
    /\ Lock(t) /\ op[t].name = "NoticeError"
    /\ IF alreadyEnded(txn)
       THEN /\ Returns(t, ErrAlreadyEnded)
            /\ UNCHANGED <<txn, clock>>
       ELSE IF Nil = op[t].str
       THEN /\ Returns(t, ErrNilError)
            /\ UNCHANGED <<txn, clock>>
       ELSE \E now \in Later :
              LET e == [txnErrorFromError(op[t].str) EXCEPT
                          !.stack = getStackTrace("NoticeError")]
                  n == noticeErrorInternal(cfg, txn, e, now)
              IN  /\ txn' = n.txn
                  /\ clock' = IF n.read THEN now ELSE clock
                  /\ Returns(t, n.ret)
    /\ UNCHANGED <<restVars, cfg, op, sink, harvest, calls>>

SetName(t) ==
    /\ Lock(t) /\ op[t].name = "SetName"
    /\ IF alreadyEnded(txn)
       THEN /\ Returns(t, ErrAlreadyEnded)
            /\ UNCHANGED txn
       ELSE /\ txn' = [txn EXCEPT !.name = op[t].str]
            /\ Returns(t, Nil)
    /\ UNCHANGED <<restVars, cfg, op, sink, harvest, clock, calls>>

Next ==
    \E t \in Threads :
        \/ Call(t)
        \/ WriterWrite(t)
        \/ WriterWriteHeader(t)
        \/ Write(t)
        \/ WriteHeader(t)
        \/ End(t)
        \/ AddAttribute(t)
        \/ NoticeError(t)
        \/ SetName(t)
        \/ Unlock(t)

Spec == Init /\ [][Next]_vars

\* The part of a method that runs under the mutex, from txn.Lock() on.
Body(t) ==
    \/ Write(t)
    \/ WriteHeader(t)
    \/ End(t)
    \/ AddAttribute(t)
    \/ NoticeError(t)
    \/ SetName(t)

\* A goroutine that is running keeps running: the call on the response writer
\* returns and the deferred Unlock runs.  sync.Mutex hands the mutex to a
\* goroutine that has waited long (starvation mode), so a goroutine that finds
\* the mutex free again and again gets it in the end.
Fairness(t) ==
    /\ WF_vars(WriterWrite(t))
    /\ WF_vars(WriterWriteHeader(t))
    /\ WF_vars(Unlock(t))
    /\ SF_vars(Body(t))

InitFair == LogIdle /\ EvIdle /\ emitted = << >> /\ TxnInit(StandbyConfigs)

FairSpec == InitFair /\ [][Next]_vars /\ \A t \in Threads : Fairness(t)

TypeOK ==
    /\ mu \in Threads \cup {0}
    /\ txn.errorsSeen \in 0..MaxCalls
    /\ Len(harvest) <= MaxCalls

(***************************************************************************)
(* mergeIntoHarvest: what the consumer adds to the harvest for a            *)
(* transaction it received, in the order of the calls.                      *)
(***************************************************************************)
\* One call on the harvest: which collection it feeds and with what.
Emission(kind, name, klass, msg, n) ==
    [kind |-> kind, name |-> name, klass |-> klass, msg |-> msg, n |-> n]

mergeIntoHarvest(x, c) ==
    LET metrics == <<Emission("createTxnMetrics", x.finalName, x.zone, "",
                              x.errorsSeen)>>
        queue   == IF x.queuing > 0
                   THEN <<Emission("queueMetric", "", "", "", x.queuing)>>
                   ELSE << >>
        tevent  == IF txnEventsEnabled(c)
                   THEN <<Emission("addTxnEvent", x.finalName, x.zone, "",
                                   x.duration)>>
                   ELSE << >>
        traces  == <<Emission("mergeTxnErrors", x.finalName, "", "",
                              Len(x.errors))>>
        eevents == IF errorEventsEnabled(c)
                   THEN [i \in 1..Len(x.errors) |->
                            Emission("errorEvents.Add", x.finalName,
                                     x.errors[i].klass, x.errors[i].msg,
                                     x.duration)]
                   ELSE << >>
    IN  metrics \o queue \o tevent \o traces \o eevents

\* The configurations of the merge: every setting of the four event switches,
\* with and without a request, with and without queueing.
MergeConfigs ==
    [ hasRequest            : BOOLEAN,
      queuing               : {0, 1},
      ErrorCollectorEnabled : {TRUE},
      CollectErrors         : {TRUE},
      HighSecurity          : {FALSE},
      IgnoreStatusCodes     : {{}},
      TransactionEventsEnabled : BOOLEAN,
      CollectAnalyticsEvents   : BOOLEAN,
      CaptureEvents            : BOOLEAN,
      CollectErrorEvents       : BOOLEAN ]

\* The consumer merges the transaction End handed it.
Merge ==
    /\ Len(harvest) >= 1 /\ emitted = << >>
    /\ emitted' = mergeIntoHarvest(harvest[1], cfg)
    /\ UNCHANGED <<txnVars, logVars, evVars>>

InitMerge == LogIdle /\ EvIdle /\ emitted = << >> /\ TxnInit(MergeConfigs)

\* One goroutine drives the transaction; the consumer merges.
NextMerge ==
    \/ \E t \in {1} :
          \/ Call(t)
          \/ WriterWrite(t)
          \/ WriterWriteHeader(t)
          \/ Write(t)
          \/ WriteHeader(t)
          \/ End(t)
          \/ AddAttribute(t)
          \/ NoticeError(t)
          \/ SetName(t)
          \/ Unlock(t)
    \/ Merge

SpecMerge == InitMerge /\ [][NextMerge]_vars

(***************************************************************************)
(* EnrichLog (log_event.go).                                               *)
(***************************************************************************)
errNilLogBuffer ==
    "New Relic failed to decorate a log: the EnrichLog() function must not be passed a nil byte buffer"
errNoApplication ==
    "New Relic failed to decorate a log: either an application or transaction must be provided to enrich a log"

\* Mutant of appendLinkingMetadata: one of trace id and span id is enough for
\* the long form.
appendLinkingMetadata_either(md, data) ==
    IF md.entityGUID = "" \/ md.entityName = "" \/ md.hostname = "" THEN data
    ELSE LET d1 == data \o " NR-LINKING|"
         IN  IF md.traceID # "" \/ md.spanID # ""
             THEN d1 \o md.entityGUID \o "|" \o md.hostname \o "|"
                     \o md.traceID \o "|" \o md.spanID \o "|"
                     \o md.entityName \o "|"
             ELSE d1 \o md.entityGUID \o "|" \o md.hostname \o "|"
                     \o md.entityName \o "|"

\* linkingMetadata.appendLinkingMetadata: the content of the buffer after it.
appendLinkingMetadata(md, data) ==
    IF md.entityGUID = "" \/ md.entityName = "" \/ md.hostname = "" THEN data
    ELSE LET d1 == data \o " NR-LINKING|"
         IN  IF md.traceID # "" /\ md.spanID # ""
             THEN d1 \o md.entityGUID \o "|" \o md.hostname \o "|"
                     \o md.traceID \o "|" \o md.spanID \o "|"
                     \o md.entityName \o "|"
             ELSE d1 \o md.entityGUID \o "|" \o md.hostname \o "|"
                     \o md.entityName \o "|"

\* Mutant of EnrichLog: the source is looked at before the buffer.
EnrichLog_sourceFirst(buf, c) ==
    IF c.source \notin {"app", "txn"}
    THEN [buf |-> buf, err |-> errNoApplication]
    ELSE IF buf.isNil THEN [buf |-> buf, err |-> errNilLogBuffer]
    ELSE IF ~c.appSet THEN [buf |-> buf, err |-> errNoApplication]
    ELSE IF c.stateErr # Nil THEN [buf |-> buf, err |-> c.stateErr]
    ELSE [buf |-> buf, err |-> Nil]

\* EnrichLog: the buffer after the call and the error returned.  c.source says
\* which of config.app and config.txn the option set; c.appSet whether the
\* resolved Application has its inner app; c.stateErr what getState returns.
EnrichLog(buf, c) ==
    IF buf.isNil THEN [buf |-> buf, err |-> errNilLogBuffer]
    ELSE IF c.source \notin {"app", "txn"}
    THEN [buf |-> buf, err |-> errNoApplication]
    ELSE LET md0 == [traceID |-> "", spanID |-> "", entityGUID |-> "",
                     hostname |-> "", entityName |-> ""]
             md1 == IF c.source = "app" THEN md0
                    ELSE [md0 EXCEPT !.spanID = c.spanID, !.traceID = c.traceID]
         IN  IF ~c.appSet THEN [buf |-> buf, err |-> errNoApplication]
             ELSE IF c.stateErr # Nil THEN [buf |-> buf, err |-> c.stateErr]
             ELSE LET md == [md1 EXCEPT !.entityGUID = c.entityGUID,
                                        !.entityName = c.entityName,
                                        !.hostname = c.hostname]
                  IN  IF c.logging /\ c.decorating
                      THEN [buf |-> [buf EXCEPT !.data = appendLinkingMetadata(md, @)],
                            err |-> Nil]
                      ELSE [buf |-> buf, err |-> Nil]

\* The EnrichLog calls of the model: the option given, and what the
\* application and the transaction hold at the time of the call.
LogCalls ==
    [ source     : {"none", "app", "txn"},
      appSet     : BOOLEAN,
      stateErr   : {Nil, "app not connected"},
      logging    : BOOLEAN,
      decorating : BOOLEAN,
      entityGUID : {"", "G"},
      hostname   : {"", "H"},
      entityName : {"", "N"},
      traceID    : {"", "T"},
      spanID     : {"", "S"} ]

LogInit ==
    /\ logbuf \in {[isNil |-> TRUE, data |-> ""],
                   [isNil |-> FALSE, data |-> ""],
                   [isNil |-> FALSE, data |-> "msg"]}
    /\ logcall = NoLogCall
    /\ logret = Nil
    /\ logcalls = 0

\* One call of EnrichLog on the caller's buffer.
EnrichLogCall ==
    /\ logcalls < MaxEnrich
    /\ \E c \in LogCalls :
          LET r == EnrichLog(logbuf, c)
          IN  /\ logbuf' = r.buf
              /\ logret' = r.err
              /\ logcall' = c
    /\ logcalls' = logcalls + 1
    /\ UNCHANGED <<txnVars, evVars, emitted>>

InitLog ==
    /\ LogInit /\ EvIdle /\ emitted = << >>
    /\ TxnInit(StandbyConfigs)

NextLog == EnrichLogCall

SpecLog == InitLog /\ [][NextLog]_vars

(***************************************************************************)
(* Log events (log_event.go): toLogEvent and WriteJSON.                    *)
(***************************************************************************)
errNilLogData == "log data can not be nil"
errLogMessageTooLarge ==
    "log message can not exceed " \o Itoa(MaxLogLength) \o " bytes"

\* logcontext: the severity of a log without one, and the wire field names.
LogSeverityUnknown == "UNKNOWN"
LogSeverityFieldName == "level"
LogMessageFieldName == "message"
LogSpanIDFieldName == "span.id"
LogTraceIDFieldName == "trace.id"
LogTimestampFieldName == "timestamp"

\* strings.TrimSpace: leading and trailing white space removed.
WhiteSpace == {" ", "\t", "\n"}

RECURSIVE TrimLeft(_)
TrimLeft(s) ==
    IF s # "" /\ SubSeq(s, 1, 1) \in WhiteSpace
    THEN TrimLeft(SubSeq(s, 2, Len(s))) ELSE s

RECURSIVE TrimRight(_)
TrimRight(s) ==
    IF s # "" /\ SubSeq(s, Len(s), Len(s)) \in WhiteSpace
    THEN TrimRight(SubSeq(s, 1, Len(s) - 1)) ELSE s

TrimSpace(s) == TrimRight(TrimLeft(s))

\* Mutant of messageTooLarge: a message of exactly MaxLogLength is refused.
messageTooLarge_inclusive(msg) == Len(msg) >= MaxLogLength

\* len(data.Message) > MaxLogLength
messageTooLarge(msg) == Len(msg) > MaxLogLength

\* LogData.toLogEvent: the event and error returned and the LogData after the
\* call.  now is time.Now() in milliseconds, prio the value of newPriority().
toLogEvent(data, now, prio) ==
    IF data.isNil
    THEN [event |-> NoEvent, err |-> errNilLogData, data |-> data]
    ELSE LET d1 == IF data.Severity = ""
                   THEN [data EXCEPT !.Severity = LogSeverityUnknown] ELSE data
         IN  IF messageTooLarge(d1.Message)
             THEN [event |-> NoEvent, err |-> errLogMessageTooLarge, data |-> d1]
             ELSE LET d2 == IF d1.Timestamp = 0
                            THEN [d1 EXCEPT !.Timestamp = now] ELSE d1
                      d3 == [d2 EXCEPT !.Message = TrimSpace(@),
                                       !.Severity = TrimSpace(@)]
                  IN  [event |-> [NoEvent EXCEPT !.priority = prio,
                                                 !.message = d3.Message,
                                                 !.severity = d3.Severity,
                                                 !.timestamp = d3.Timestamp],
                       err |-> Nil, data |-> d3]

\* jsonFieldsWriter: a field is preceded by a comma when needsComma is set,
\* and sets it.
JSONQuote(str) == "\"" \o str \o "\""

stringField(w, key, val) ==
    [buf |-> w.buf \o (IF w.needsComma THEN "," ELSE "")
                   \o JSONQuote(key) \o ":" \o JSONQuote(val),
     needsComma |-> TRUE]

intField(w, key, val) ==
    [buf |-> w.buf \o (IF w.needsComma THEN "," ELSE "")
                   \o JSONQuote(key) \o ":" \o Itoa(val),
     needsComma |-> TRUE]

\* Mutant of WriteJSON: the trace id is written only next to a span id.
WriteJSON_nested(e, buf) ==
    LET w0 == [buf |-> buf \o "{", needsComma |-> FALSE]
        w1 == stringField(w0, LogSeverityFieldName, e.severity)
        w2 == stringField(w1, LogMessageFieldName, e.message)
        w3 == IF Len(e.spanID) > 0
              THEN LET v == stringField(w2, LogSpanIDFieldName, e.spanID)
                   IN  IF Len(e.traceID) > 0
                       THEN stringField(v, LogTraceIDFieldName, e.traceID) ELSE v
              ELSE w2
        w5 == [buf |-> w3.buf \o ",", needsComma |-> FALSE]
        w6 == intField(w5, LogTimestampFieldName, e.timestamp)
    IN  w6.buf \o "}"

\* logEvent.WriteJSON: the buffer after the call.
WriteJSON(e, buf) ==
    LET w0 == [buf |-> buf \o "{", needsComma |-> FALSE]
        w1 == stringField(w0, LogSeverityFieldName, e.severity)
        w2 == stringField(w1, LogMessageFieldName, e.message)
        w3 == IF Len(e.spanID) > 0
              THEN stringField(w2, LogSpanIDFieldName, e.spanID) ELSE w2
        w4 == IF Len(e.traceID) > 0
              THEN stringField(w3, LogTraceIDFieldName, e.traceID) ELSE w3
        w5 == [buf |-> w4.buf \o ",", needsComma |-> FALSE]
        w6 == intField(w5, LogTimestampFieldName, e.timestamp)
    IN  w6.buf \o "}"

\* A string of n bytes.
RECURSIVE Pad(_)
Pad(n) ==
    IF n = 0 THEN ""
    ELSE IF n % 2 = 0 THEN LET h == Pad(n \div 2) IN h \o h
    ELSE "x" \o Pad(n - 1)

\* The LogData values of the model: messages around the size limit, with and
\* without white space at their ends, and severities with and without text.
LogMessages ==
    {"", "m", " m\n", Pad(MaxLogLength), Pad(MaxLogLength + 1),
     " " \o Pad(MaxLogLength - 1), " " \o Pad(MaxLogLength)}
LogSeverities == {"", " ", "info", " info\t"}
LogTimestamps == {0, 5}
LogDatas ==
    {NilLogData} \cup
    [isNil : {FALSE}, Timestamp : LogTimestamps,
     Severity : LogSeverities, Message : LogMessages]
NowMillis == {7}
Priorities == {1}
SpanIDs == {"", "s1"}
TraceIDs == {"", "t1"}

\* One call of toLogEvent.
ToLogEventCall ==
    /\ evcalls < MaxBuilds
    /\ \E d \in LogDatas : \E now \in NowMillis : \E prio \in Priorities :
          LET r == toLogEvent(d, now, prio)
          IN  /\ evin' = d
              /\ evdata' = r.data
              /\ event' = r.event
              /\ everr' = r.err
    /\ evcalls' = evcalls + 1
    /\ wire' = ""
    /\ UNCHANGED <<txnVars, logVars, emitted>>

\* The event gets the span id and trace id of the transaction that logs it,
\* if any, and is written to a fresh buffer.
WriteJSONCall ==
    /\ evcalls > 0 /\ everr = Nil /\ wire = ""
    /\ \E sp \in SpanIDs : \E tr \in TraceIDs :
          /\ event' = [event EXCEPT !.spanID = sp, !.traceID = tr]
          /\ wire' = WriteJSON(event', "")
    /\ UNCHANGED <<txnVars, logVars, emitted, evin, evdata, everr, evcalls>>

InitEvent == LogIdle /\ EvIdle /\ emitted = << >> /\ TxnInit(StandbyConfigs)

NextEvent == ToLogEventCall \/ WriteJSONCall

SpecEvent == InitEvent /\ [][NextEvent]_vars

(***************************************************************************)
(* Properties.                                                             *)
(***************************************************************************)
\* Goroutine t runs the body of method n in this step.
BodyStep(t, n) == pc[t] = "lock" /\ op[t].name = n /\ pc'[t] = "unlock"

\* Goroutine t has just run the End that finalized the transaction.
FinalizingEnd(t) ==
    pc[t] = "unlock" /\ op[t].name = "End" /\ ret[t].val # ErrAlreadyEnded

GatesOpen == cfg.ErrorCollectorEnabled /\ cfg.CollectErrors

\* The stored errors that header capture produced.
HeaderErrors(x) ==
    {i \in 1..Len(x.errors) : x.errors[i].stack = "headersJustWritten"}

\* C1: however many End calls run, in any interleaving, exactly one of them
\* finalizes: consume() is called once for a transaction that is not ignored,
\* never twice, and every other End returns ErrAlreadyEnded and changes nothing.
C1_EndExactlyOnce ==
    /\ [](/\ Len(harvest) <= 1
          /\ (txn.finished /\ ~txn.ignore => Len(harvest) = 1)
          /\ (~txn.finished => harvest = << >>))
    /\ [][txn.finished => txn'.finished]_vars
    /\ [][\A t \in Threads : BodyStep(t, "End") =>
            IF txn.finished
            THEN /\ ret'[t].kind = "return" /\ ret'[t].val = ErrAlreadyEnded
                 /\ txn' = txn /\ harvest' = harvest
            ELSE /\ txn'.finished /\ ret'[t].val # ErrAlreadyEnded
                 /\ Len(harvest') = IF txn'.ignore THEN 0 ELSE 1]_vars

\* Witness of C1: an End that raced with the finalizing End got ErrAlreadyEnded
\* and the consumer was called once.
C1_Witness ==
    /\ Len(harvest) = 1
    /\ \E t \in Threads :
          /\ pc[t] = "unlock" /\ op[t].name = "End" /\ ~op[t].late
          /\ ret[t].val = ErrAlreadyEnded

\* C2 as stated: every method called after End has completed, Write and
\* WriteHeader included, returns ErrAlreadyEnded.
C2_Original ==
    \A t \in Threads :
        pc[t] = "unlock" /\ op[t].late => ret[t].val = ErrAlreadyEnded

\* C2 amended: SetName, AddAttribute, NoticeError and End called after End has
\* completed return ErrAlreadyEnded; Write returns what the wrapped writer
\* returned and WriteHeader returns nothing.
C2_Amended ==
    \A t \in Threads :
        pc[t] = "unlock" /\ op[t].late =>
            /\ op[t].name \in {"SetName", "AddAttribute", "NoticeError", "End"}
                  => ret[t].kind = "return" /\ ret[t].val = ErrAlreadyEnded
            /\ op[t].name = "Write" => ret[t].val = Nil
            /\ op[t].name = "WriteHeader" => ret[t].val = "void"

\* Witness of C2: AddAttribute called after End completed got ErrAlreadyEnded.
C2_Witness ==
    \E t \in Threads :
        /\ pc[t] = "unlock" /\ op[t].late /\ op[t].name = "AddAttribute"
        /\ ret[t].val = ErrAlreadyEnded

\* C3: once the first End has completed, no later call changes any field of
\* the transaction (nor what the consumer received).
C3_FrozenAfterEnd ==
    [][EndCompleted => (txn' = txn /\ harvest' = harvest)]_vars

\* Witness of C3: WriteHeader(404) called after End completed has run and the
\* transaction records no header write and no error.
C3_Witness ==
    /\ EndCompleted
    /\ ~txn.wroteHeader /\ txn.errorsSeen = 0
    /\ \E t \in Threads :
          /\ pc[t] = "unlock" /\ op[t].late
          /\ op[t].name = "WriteHeader" /\ op[t].code = 404

\* C4 as stated: End run while any panic unwinds, panic(nil) included, counts
\* the panic as an error, finalizes, and leaves the same panic unwinding.
C4_Original ==
    \A t \in Threads :
        FinalizingEnd(t) /\ op[t].str # NoPanic =>
            /\ txn.errorsSeen >= 1
            /\ txn.finished /\ txn.stop = clock
            /\ (~txn.ignore => Len(harvest) = 1)
            /\ ret[t].unwinding = op[t].str

\* C4 amended: End run while a panic with a non-nil value unwinds counts it as
\* an error (stored with class panic when errors are collected), stops the
\* clock, freezes the name, sets the zone, hands the record to the consumer
\* unless the transaction is ignored, and panics again with the same value.
C4_Amended ==
    [][\A t \in Threads :
         BodyStep(t, "End") /\ ~txn.finished /\ op[t].str \notin {NoPanic, Nil} =>
            /\ txn'.errorsSeen = txn.errorsSeen + 1
            /\ GatesOpen =>
                  /\ Len(txn'.errors) = Len(txn.errors) + 1
                  /\ txn'.errors[Len(txn'.errors)].klass = "panic"
            /\ txn'.finished
            /\ txn'.stop = clock' /\ txn'.duration = txn'.stop - txn.start
            /\ txn'.ignore = (txn'.finalName = "")
            /\ txn'.zone = IF txn.isWeb THEN apdexFailing ELSE apdexNone
            /\ harvest' = IF txn'.ignore THEN harvest ELSE Append(harvest, txn')
            /\ ret'[t] = [kind |-> "panic", val |-> op[t].str,
                          unwinding |-> op[t].str]]_vars

\* Witness of C4: End has finalized under a panic, stored it, handed the
\* record to the consumer and panics again.
C4_Witness ==
    \E t \in Threads :
        /\ FinalizingEnd(t) /\ ret[t].kind = "panic" /\ ret[t].unwinding = "boom"
        /\ Len(harvest) = 1
        /\ \E i \in 1..Len(txn.errors) : txn.errors[i].klass = "panic"

\* The step is one that hands a failure to noticeErrorInternal.
CaptureStep(t) ==
    \/ BodyStep(t, "NoticeError") /\ ~txn.finished /\ op[t].str # Nil
    \/ /\ BodyStep(t, "WriteHeader")
       /\ ~txn.finished /\ ~txn.wroteHeader
       /\ op[t].code >= 400 /\ op[t].code \notin cfg.IgnoreStatusCodes
    \/ BodyStep(t, "End") /\ ~txn.finished /\ op[t].str \notin {NoPanic, Nil}

\* C5: every failure handed to error capture (NoticeError of a non-nil error,
\* an error status at header capture, a panic met by End) adds exactly one to
\* errorsSeen, whatever the two gates say, and nothing else changes the
\* counter; while a gate is closed the stored errors stay empty.
C5_CounterCountsAll ==
    /\ [](~GatesOpen => txn.errors = << >>)
    /\ [][txn'.errorsSeen = txn.errorsSeen +
            (IF \E t \in Threads : CaptureStep(t) THEN 1 ELSE 0)]_vars

\* Witness of C5: both gates closed, three failures counted (an error, a 404
\* and a panic), none stored.
C5_Witness ==
    /\ ~cfg.ErrorCollectorEnabled /\ ~cfg.CollectErrors
    /\ txn.errorsSeen = 3 /\ txn.errors = << >>
    /\ txn.attrs.ResponseCode = "404"
    /\ \E t \in Threads : FinalizingEnd(t) /\ ret[t].kind = "panic"

\* C6: under high security every stored error, whichever path captured it,
\* carries the fixed redaction message, in the transaction and in the record
\* the consumer received.
C6_HighSecurityRedacts ==
    cfg.HighSecurity =>
        /\ \A i \in 1..Len(txn.errors) :
              txn.errors[i].msg = HighSecurityErrorMsg
        /\ \A j \in 1..Len(harvest) : \A i \in 1..Len(harvest[j].errors) :
              harvest[j].errors[i].msg = HighSecurityErrorMsg

\* Witness of C6: under high security three errors are stored, one from each
\* path.
C6_Witness ==
    /\ cfg.HighSecurity
    /\ {txn.errors[i].klass : i \in 1..Len(txn.errors)} = {"error", "404", "panic"}

\* C7: a finalized web transaction that counted an error has zone failing,
\* whatever its duration; a finalized transaction that is not web has zone none.
C7_ErrorsForceFailing ==
    txn.finished =>
        /\ (txn.isWeb /\ txn.errorsSeen >= 1 => txn.zone = apdexFailing)
        /\ (~txn.isWeb => txn.zone = apdexNone)

\* Witness of C7: a finalized web transaction, faster than its threshold, with
\* an error counted but not stored, has zone failing.
C7_Witness ==
    /\ txn.finished /\ txn.isWeb
    /\ txn.errorsSeen >= 1 /\ txn.errors = << >>
    /\ txn.duration < txn.apdexThreshold
    /\ txn.zone = apdexFailing

\* C8: header capture runs for the first header write only.  That write sets
\* wroteHeader and counts one error if its status is an error status; every
\* later Write or WriteHeader leaves the transaction as it is, so at most one
\* stored error comes from header capture, and exactly one when the captured
\* status is an error status and errors are collected.
C8_HeaderCaptureOnce ==
    /\ [](/\ Cardinality(HeaderErrors(txn)) <= 1
          /\ (txn.wroteHeader /\ GatesOpen =>
                Cardinality(HeaderErrors(txn)) =
                    IF \E c \in Codes :
                          /\ ResponseCodeString(c) = txn.attrs.ResponseCode
                          /\ c >= 400 /\ c \notin cfg.IgnoreStatusCodes
                    THEN 1 ELSE 0))
    /\ [][\A t \in Threads :
            (BodyStep(t, "Write") \/ BodyStep(t, "WriteHeader")) =>
                IF txn.wroteHeader THEN txn' = txn
                ELSE ~txn.finished =>
                        /\ txn'.wroteHeader
                        /\ txn'.attrs.ResponseCode =
                              Itoa(IF op[t].name = "Write" THEN 200 ELSE op[t].code)]_vars

\* Witness of C8: after a 404 was captured, a WriteHeader(599) has run on the
\* open transaction: still one error, and the recorded status is still 404.
C8_Witness ==
    /\ ~txn.finished /\ txn.attrs.ResponseCode = "404"
    /\ txn.errorsSeen = 1 /\ Cardinality(HeaderErrors(txn)) = 1
    /\ \E t \in Threads :
          pc[t] = "unlock" /\ op[t].name = "WriteHeader" /\ op[t].code = 599

\* C9: a transaction whose name resolves to the empty name at End is flagged
\* ignore and still becomes finished, and consume() is never called for an
\* ignored transaction, by that End or by any later call.
C9_IgnoredNeverConsumed ==
    /\ (txn.finished /\ CreateFullTxnName(txn.name, txn.isWeb) = "" =>
            txn.ignore /\ txn.finalName = "")
    /\ (txn.ignore => txn.finished /\ harvest = << >>)

\* Witness of C9: the transaction is finished and ignored, a later End has
\* run, and the consumer received nothing.
C9_Witness ==
    /\ txn.finished /\ txn.ignore /\ harvest = << >>
    /\ \E t \in Threads :
          pc[t] = "unlock" /\ op[t].name = "End" /\ op[t].late

\* The linking metadata a successful EnrichLog call has to append.
LinkingText(c) ==
    LET trace == IF c.source = "txn" THEN c.traceID ELSE ""
        span  == IF c.source = "txn" THEN c.spanID ELSE ""
    IN  IF /\ c.logging /\ c.decorating
           /\ c.entityGUID # "" /\ c.hostname # "" /\ c.entityName # ""
        THEN IF trace # "" /\ span # ""
             THEN " NR-LINKING|" \o c.entityGUID \o "|" \o c.hostname \o "|"
                      \o trace \o "|" \o span \o "|" \o c.entityName \o "|"
             ELSE " NR-LINKING|" \o c.entityGUID \o "|" \o c.hostname \o "|"
                      \o c.entityName \o "|"
        ELSE ""

\* C10: a successful EnrichLog call leaves the earlier content of the buffer
\* as it is and appends " NR-LINKING|" and entityGUID|host|traceId|spanId|
\* entityName| (both ids non-empty) or entityGUID|host|entityName| (otherwise)
\* exactly when logging and local decorating are enabled and entity GUID, host
\* and entity name are all non-empty; otherwise it appends nothing.
C10_EnrichAppends ==
    [][(logcalls' # logcalls /\ logret' = Nil) =>
          logbuf' = [isNil |-> FALSE, data |-> logbuf.data \o LinkingText(logcall')]]_vars

\* Witness of C10: a call from a transaction that has a trace id and no span
\* id appended the short form to a buffer that held "msg".
C10_Witness ==
    /\ logret = Nil /\ logcalls >= 1
    /\ logcall.source = "txn" /\ logcall.traceID = "T" /\ logcall.spanID = ""
    /\ logbuf.data = "msg NR-LINKING|G|H|N|"

C12_OversizedRejected ==
    [][(evcalls' # evcalls /\ ~evin'.isNil) =>
          /\ (everr' = errLogMessageTooLarge) = (Len(evin'.Message) > 32768)
          /\ (everr' = errLogMessageTooLarge => event' = NoEvent)
          /\ (everr' # errLogMessageTooLarge =>
                everr' = Nil /\ event'.message = TrimSpace(evin'.Message))]_vars

\* Witness of C12: a message of 32769 bytes, 32768 of them after trimming, was
\* refused.
C12_Witness ==
    /\ evcalls > 0 /\ everr = errLogMessageTooLarge /\ event = NoEvent
    /\ Len(evin.Message) = 32769 /\ Len(TrimSpace(evin.Message)) = 32768

\* C13: for every LogData toLogEvent accepts, a blank severity (empty, or white
\* space only) becomes the "unknown" sentinel and any other severity is
\* trimmed, so the event never has an empty severity.
C13_SeverityDefaulted ==
    (evcalls > 0 /\ ~evin.isNil /\ everr = Nil) =>
        /\ event.severity =
              IF TrimSpace(evin.Severity) = "" THEN LogSeverityUnknown
              ELSE TrimSpace(evin.Severity)
        /\ event.severity # ""

\* The wire form of one string field.
WireField(key, val) == "\"" \o key \o "\":\"" \o val \o "\""

\* C14: the wire form of a log event lists severity, message, span id, trace
\* id and timestamp in this order; span id and trace id are there exactly when
\* they are not empty, each on its own account; and there is one comma between
\* two fields in all four cases.
C14_WireOrder ==
    wire # "" =>
        wire = "{" \o WireField(LogSeverityFieldName, event.severity)
                   \o "," \o WireField(LogMessageFieldName, event.message)
                   \o (IF event.spanID # ""
                       THEN "," \o WireField(LogSpanIDFieldName, event.spanID)
                       ELSE "")
                   \o (IF event.traceID # ""
                       THEN "," \o WireField(LogTraceIDFieldName, event.traceID)
                       ELSE "")
                   \o "," \o "\"" \o LogTimestampFieldName \o "\":"
                   \o Itoa(event.timestamp) \o "}"

\* Witness of C14: an event with a trace id and no span id was written.
C14_Witness ==
    /\ wire # "" /\ event.spanID = "" /\ event.traceID = "t1"
    /\ event.message = "m" /\ event.severity = "info"

\* A Write or WriteHeader call of t that has passed the response writer and
\* has not yet run its header capture.
WritePending(t) == pc[t] = "lock" /\ op[t].name \in {"Write", "WriteHeader"}

\* The response attributes header capture records.
ResponseAttrs(x) ==
    <<x.attrs.ResponseCode, x.attrs.ResponseHeadersContentType,
      x.attrs.ResponseHeadersContentLength>>

\* C15: with any number of Write and WriteHeader calls running at once on a
\* transaction that is not finished, header capture is neither lost nor
\* repeated: once every call that reached the response writer has run its
\* capture, wroteHeader is set and a response code is recorded; wroteHeader is
\* never reset; the response attributes are written in one step only, the one
\* that sets wroteHeader; and the calls count one error at most, in that step,
\* and store one header error at most.
C15_CaptureNotLostNotRepeated ==
    /\ []((sink.status # 0 /\ ~txn.finished
              /\ \A t \in Threads : ~WritePending(t)) =>
            /\ txn.wroteHeader /\ txn.attrs.ResponseCode # ""
            /\ Cardinality(HeaderErrors(txn)) <= 1)
    /\ [][/\ (txn.wroteHeader => txn'.wroteHeader)
          /\ (ResponseAttrs(txn') # ResponseAttrs(txn) =>
                ~txn.wroteHeader /\ txn'.wroteHeader)
          /\ \A t \in Threads :
                (BodyStep(t, "Write") \/ BodyStep(t, "WriteHeader")) =>
                    /\ txn'.errorsSeen \in {txn.errorsSeen, txn.errorsSeen + 1}
                    /\ (txn'.errorsSeen # txn.errorsSeen =>
                          ~txn.wroteHeader /\ txn'.wroteHeader)]_vars

\* Witness of C15: two WriteHeader calls raced.  599 reached the response
\* writer first, 404 was captured first, and the capture of 599 has just run:
\* one capture, one error.
C15_Witness ==
    /\ ~txn.finished /\ calls = 2 /\ sink.status = 599
    /\ txn.wroteHeader /\ txn.attrs.ResponseCode = "404"
    /\ txn.errorsSeen = 1 /\ Cardinality(HeaderErrors(txn)) = 1
    /\ \E t \in Threads :
          /\ pc[t] = "unlock" /\ op[t].name = "WriteHeader" /\ op[t].code = 599
          /\ \A u \in Threads \ {t} : pc[u] = "idle"

\* C17: NoticeError(nil) on a transaction that is not finished returns
\* ErrNilError and changes nothing; on a finished transaction it returns
\* ErrAlreadyEnded, the finished check coming first; and an error that is not
\* nil, with both gates closed, gets ErrorsLocallyDisabled.
C17_NoticeErrorChecks ==
    [][\A t \in Threads : BodyStep(t, "NoticeError") =>
          /\ (~txn.finished /\ op[t].str = Nil =>
                /\ ret'[t] = [kind |-> "return", val |-> ErrNilError,
                              unwinding |-> NoPanic]
                /\ txn' = txn /\ harvest' = harvest)
          /\ (txn.finished =>
                /\ ret'[t].kind = "return" /\ ret'[t].val = ErrAlreadyEnded
                /\ txn' = txn)
          /\ ((~txn.finished /\ op[t].str # Nil
                /\ ~cfg.ErrorCollectorEnabled /\ ~cfg.CollectErrors) =>
                ret'[t].kind = "return" /\ ret'[t].val = ErrorsLocallyDisabled)]_vars

\* Witness of C17: with both gates closed, one goroutine got ErrNilError on the
\* open transaction, which counted and stored nothing.
C17_Witness ==
    /\ ~cfg.ErrorCollectorEnabled /\ ~cfg.CollectErrors
    /\ ~txn.finished /\ txn.errorsSeen = 0 /\ txn.errors = << >>
    /\ \E t \in Threads :
          /\ pc[t] = "unlock" /\ op[t].name = "NoticeError" /\ op[t].str = Nil
          /\ ret[t].val = ErrNilError

\* C18: the status the transaction records is the status the response writer
\* sent first, in every interleaving of Write and WriteHeader calls.
C18_RecordedIsSent ==
    txn.wroteHeader => txn.attrs.ResponseCode = ResponseCodeString(sink.status)

\* C19: a header write that reached the response writer before End finalized
\* is in the finalized transaction: wroteHeader is set, and for an error
\* status the counter is at least 1 and a web transaction has zone failing.
C19_HeaderWriteInFinalRecord ==
    [][\A t \in Threads :
          (BodyStep(t, "End") /\ ~txn.finished /\ sink.status # 0) =>
              /\ txn'.finished /\ txn'.wroteHeader
              /\ (responseCodeIsError(cfg, sink.status) =>
                    /\ txn'.errorsSeen >= 1
                    /\ (txn'.isWeb => txn'.zone = apdexFailing))]_vars

\* The kinds of the calls the merge made, in order.
EmittedKinds == [i \in 1..Len(emitted) |-> emitted[i].kind]

\* How many calls of kind k the merge made.
EmittedCount(k) == Cardinality({i \in 1..Len(emitted) : emitted[i].kind = k})

\* The place of each kind of call in the order of the merge.
MergeRank(k) ==
    CASE k = "createTxnMetrics" -> 1
      [] k = "queueMetric"      -> 2
      [] k = "addTxnEvent"      -> 3
      [] k = "mergeTxnErrors"   -> 4
      [] k = "errorEvents.Add"  -> 5

\* C16: the merge of a finalized transaction that is not ignored makes its
\* calls in this order: the summary metrics, always; the queueing metric, if
\* and only if queuing > 0; one transaction event, if and only if the local
\* and the remote switch of transaction events are both on; the merged error
\* collection, always; and, if and only if the local and the remote switch of
\* error events are both on, one error event for each stored error, in the
\* order stored, and none otherwise.
C16_MergeOrder ==
    emitted # << >> =>
        LET x == harvest[1]
            errorEvents == SelectSeq(emitted,
                               LAMBDA e : e.kind = "errorEvents.Add")
        IN  /\ x.finished /\ ~x.ignore
            /\ \A i, j \in 1..Len(emitted) :
                  i < j => \/ MergeRank(emitted[i].kind) < MergeRank(emitted[j].kind)
                           \/ /\ emitted[i].kind = "errorEvents.Add"
                              /\ emitted[j].kind = "errorEvents.Add"
            /\ EmittedCount("createTxnMetrics") = 1
            /\ EmittedCount("queueMetric") = (IF x.queuing > 0 THEN 1 ELSE 0)
            /\ EmittedCount("addTxnEvent") =
                  (IF cfg.TransactionEventsEnabled /\ cfg.CollectAnalyticsEvents
                   THEN 1 ELSE 0)
            /\ EmittedCount("mergeTxnErrors") = 1
            /\ Len(errorEvents) =
                  (IF cfg.CaptureEvents /\ cfg.CollectErrorEvents
                   THEN Len(x.errors) ELSE 0)
            /\ \A i \in 1..Len(errorEvents) :
                  /\ errorEvents[i].klass = x.errors[i].klass
                  /\ errorEvents[i].msg = x.errors[i].msg
                  /\ errorEvents[i].name = x.finalName

\* Witness of C16: a queued transaction with two stored errors was merged with
\* error events switched on locally only and transaction events on: metrics,
\* queueing, transaction event, errors, and no error event.
C16_Witness ==
    /\ emitted # << >> /\ Len(harvest[1].errors) = 2 /\ harvest[1].queuing > 0
    /\ cfg.CaptureEvents /\ ~cfg.CollectErrorEvents
    /\ EmittedKinds = <<"createTxnMetrics", "queueMetric", "addTxnEvent",
                        "mergeTxnErrors">>

\* C20: every way out of every public method releases the mutex, the return
\* after a finished check or a nil check and the panic End hands on included:
\* the mutex is held exactly while its holder is between Lock and the deferred
\* Unlock, it is free when no call is running, and under fair scheduling every
\* call that was started comes to its end.
C20_LockAlwaysReleased ==
    /\ [](/\ \A t \in Threads : (mu = t) = (pc[t] = "unlock")
          /\ ((\A t \in Threads : pc[t] = "idle") => mu = 0))
    /\ \A t \in Threads : (pc[t] # "idle") ~> (pc[t] = "idle")

\* Witness of C20: End has handed on a panic and its deferred Unlock is about
\* to run, while the other goroutine waits for the mutex.
C20_Witness ==
    \E t \in Threads :
        /\ pc[t] = "unlock" /\ op[t].name = "End" /\ ret[t].kind = "panic"
        /\ mu = t
        /\ \E u \in Threads \ {t} : pc[u] = "lock"

====
